---- MODULE Spec2Model ----
(***************************************************************************)
(* Model of the useField hook (hook_form_lib/hooks/use_field.ts): one form *)
(* field's value, errors and flags, the setValue / validate / clearErrors  *)
(* operations, the debounce timer and the overlapping asynchronous         *)
(* validation runs.                                                        *)
(*                                                                         *)
(* JavaScript values are records [t, s]: t is the typeof tag and s the     *)
(* characters of a string (or the digits of a number).  Validators give    *)
(* ValidationError objects (truthy) when they fail, by return or by throw. *)
(***************************************************************************)
EXTENDS Integers, Sequences, FiniteSets, TLC

\* ------------------------------------------------------------------------
\* Bounds of the exploration
\* ------------------------------------------------------------------------
MaxOps == 2

MaxValidate == 2

\* ------------------------------------------------------------------------
\* JavaScript values
\* ------------------------------------------------------------------------
Undefined == [t |-> "undefined", s |-> <<>>]

Str(chars) == [t |-> "string", s |-> chars]

Num(digits) == [t |-> "number", s |-> digits]

NaN == [t |-> "number", s |-> <<"NaN">>]

Bool(b) == [t |-> "boolean", s |-> IF b THEN <<"true">> ELSE <<"false">>]

IsWhitespace(c) == c = " "

IsDigit(c) == c \in {"0", "1", "2"}

RECURSIVE TrimStart(_)
TrimStart(chars) ==
    IF chars # <<>> /\ IsWhitespace(Head(chars)) THEN TrimStart(Tail(chars)) ELSE chars

RECURSIVE TrimEnd(_)
TrimEnd(chars) ==
    IF chars # <<>> /\ IsWhitespace(chars[Len(chars)])
    THEN TrimEnd(SubSeq(chars, 1, Len(chars) - 1))
    ELSE chars

\* String.prototype.trim
Trim(chars) == TrimEnd(TrimStart(chars))

\* ------------------------------------------------------------------------
\* Constants imported by the hook
\* ------------------------------------------------------------------------
VALIDATION_TYPES == [FIELD |-> "field", ASYNC |-> "async", ARRAY_ITEM |-> "array-item"]

FIELD_TYPES == [TEXT |-> "text", NUMBER |-> "number"]

\* an absent (undefined) property or argument
Unset == "undefined"

\* ------------------------------------------------------------------------
\* Formatters and (de)serializers a caller can configure
\* ------------------------------------------------------------------------
RECURSIVE DigitPrefix(_)
DigitPrefix(chars) ==
    IF chars # <<>> /\ IsDigit(Head(chars))
    THEN <<Head(chars)>> \o DigitPrefix(Tail(chars))
    ELSE <<>>

\* fieldFormatters.toInt: the leading number of the text, NaN when there is none
toInt(v) ==
    IF v.t = "number" THEN v
    ELSE IF v.t = "string" /\ DigitPrefix(TrimStart(v.s)) # <<>>
         THEN Num(DigitPrefix(TrimStart(v.s)))
         ELSE NaN

UpperChar(c) == IF c = "a" THEN "A" ELSE c

toUpperCase(v) ==
    IF v.t = "string" THEN Str([i \in 1..Len(v.s) |-> UpperChar(v.s[i])]) ELSE v

appendA(v) == IF v.t = "string" THEN Str(v.s \o <<"a">>) ELSE v

\* a formatter of the configuration, applied to one value
ApplyFormatter(f, v) ==
    CASE f = "toInt" -> toInt(v)
      [] f = "toUpperCase" -> toUpperCase(v)
      [] f = "appendA" -> appendA(v)

\* String(v)
ToJsString(v) ==
    CASE v.t = "undefined" -> Str(<<"u">>)
      [] v.t = "string" -> v
      [] OTHER -> Str(v.s)

\* the serializer / deSerializer of the configuration, applied to one value;
\* the default is the identity
ApplySerializer(f, v) ==
    CASE f = Unset -> v
      [] f = "String" -> ToJsString(v)
      [] f = "toInt" -> toInt(v)

\* ------------------------------------------------------------------------
\* Validators a caller can configure
\* ------------------------------------------------------------------------
\* what one validator call gives: how is "pass" (a falsy value), "return" (a
\* ValidationError is returned) or "throw" (a ValidationError is thrown)
Outcome(how, msg, code) == [how |-> how, message |-> msg, code |-> code]

isEmptyString(input) == input.t = "string" /\ Trim(input.s) = <<>>

Validator(name, value) ==
    CASE name = "emptyField" ->
           IF isEmptyString(value) \/ value.t = "undefined"
           THEN Outcome("return", <<"required">>, "ERR_REQUIRED")
           ELSE Outcome("pass", <<>>, "")
      [] name = "isNumber" ->
           IF toInt(value) = NaN
           THEN Outcome("throw", <<"not a number">>, "ERR_NUMBER")
           ELSE Outcome("pass", <<>>, "")
      [] name = "alwaysReturns" -> Outcome("return", <<"rejected">>, "ERR_RETURN")
      [] name = "alwaysThrows" -> Outcome("throw", <<"thrown">>, "ERR_THROW")
      [] name = "neverFails" -> Outcome("pass", <<>>, "")

\* one entry of FieldConfig.validations
Validation(name, type, exitOnFail, message) ==
    [validator |-> name, type |-> type, exitOnFail |-> exitOnFail, message |-> message]

NoMessage == [kind |-> Unset, text |-> <<>>]

Literal(text) == [kind |-> "literal", text |-> text]

Computed == [kind |-> "function", text |-> <<>>]

\* the message function of a configuration: it quotes the failure's code
ComputedMessage(validationResult) == <<"code", validationResult.code>>

getValidationErrorWithMessage(validation, validationResult) ==
    LET message == IF validation.message.kind # Unset
                   THEN validation.message
                   ELSE Literal(validationResult.message)
    IN [validationResult EXCEPT
          !.message = IF message.kind = "function"
                      THEN ComputedMessage(validationResult)
                      ELSE message.text]

\* ------------------------------------------------------------------------
\* Helpers of the hook
\* ------------------------------------------------------------------------
\* the validationType argument of filterErrors / clearErrors / validate:
\* absent, one type, or an array of types
NoType == [kind |-> Unset, types |-> <<>>]

OneType(type) == [kind |-> "string", types |-> <<type>>]

TypeArray(types) == [kind |-> "array", types |-> types]

\* variant: an error is kept as soon as one of the listed types differs
RECURSIVE filterErrors_Some(_, _)
filterErrors_Some(_errors, validationTypeToFilterOut) ==
    LET validationTypeToArray ==
            IF validationTypeToFilterOut.kind = Unset
            THEN <<VALIDATION_TYPES.FIELD>>
            ELSE validationTypeToFilterOut.types
        keep(error) ==
            \E i \in 1..Len(validationTypeToArray) :
                error.validationType # validationTypeToArray[i]
    IN IF _errors = <<>> THEN <<>>
       ELSE (IF keep(Head(_errors)) THEN <<Head(_errors)>> ELSE <<>>)
            \o filterErrors_Some(Tail(_errors), validationTypeToFilterOut)

RECURSIVE filterErrors(_, _)
filterErrors(_errors, validationTypeToFilterOut) ==
    LET validationTypeToArray ==
            IF validationTypeToFilterOut.kind = Unset
            THEN <<VALIDATION_TYPES.FIELD>>
            ELSE validationTypeToFilterOut.types
        keep(error) ==
            \A i \in 1..Len(validationTypeToArray) :
                error.validationType # validationTypeToArray[i]
    IN IF _errors = <<>> THEN <<>>
       ELSE (IF keep(Head(_errors)) THEN <<Head(_errors)>> ELSE <<>>)
            \o filterErrors(Tail(_errors), validationTypeToFilterOut)

\* the formatters list after setDefaultFormatter has run
setDefaultFormatter(config) ==
    IF Len(config.formatters) > 0 THEN config.formatters
    ELSE IF config.type = FIELD_TYPES.NUMBER THEN <<"toInt">>
    ELSE config.formatters

RECURSIVE reduceFormatters(_, _)
reduceFormatters(formatters, output) ==
    IF formatters = <<>> THEN output
    ELSE reduceFormatters(Tail(formatters), ApplyFormatter(Head(formatters), output))

\* variant: only the empty string itself escapes the formatters
runFormatters_OnlyEmpty(config, input) ==
    IF input = Str(<<>>) THEN input
    ELSE reduceFormatters(setDefaultFormatter(config), input)

runFormatters(config, input) ==
    IF isEmptyString(input) THEN input
    ELSE reduceFormatters(setDefaultFormatter(config), input)

\* ------------------------------------------------------------------------
\* One validation run
\* ------------------------------------------------------------------------
\* variant: the guard looks at the stop flag only
runValidationSkips_IgnoresType(validation, skip, validationTypeToValidate) == skip

\* the guard at the top of runValidation: TRUE when the validator is not called
runValidationSkips(validation, skip, validationTypeToValidate) ==
    LET validationType == IF validation.type = Unset
                          THEN VALIDATION_TYPES.FIELD ELSE validation.type
    IN skip \/ (validationTypeToValidate.kind # Unset
                /\ validationType # validationTypeToValidate.types[1])

\* variant: a returned failure stops the run only when exitOnFail is true
runValidationSettle_ExitOnlyIfTrue(validation, out, skip) ==
    CASE out.how = "throw" -> [skip |-> TRUE, failed |-> TRUE]
      [] out.how = "return" ->
           [skip |-> IF validation.exitOnFail = "true" THEN TRUE ELSE skip,
            failed |-> TRUE]
      [] OTHER -> [skip |-> skip, failed |-> FALSE]

\* variant: a returned failure always stops the run
runValidationSettle_AlwaysExits(validation, out, skip) ==
    CASE out.how = "throw" -> [skip |-> TRUE, failed |-> TRUE]
      [] out.how = "return" -> [skip |-> TRUE, failed |-> TRUE]
      [] OTHER -> [skip |-> skip, failed |-> FALSE]

\* variant: the catch block sets the stop flag and drops the thrown value
runValidationSettle_SwallowsThrow(validation, out, skip) ==
    CASE out.how = "throw" -> [skip |-> TRUE, failed |-> FALSE]
      [] out.how = "return" ->
           [skip |-> IF validation.exitOnFail # "false" THEN TRUE ELSE skip,
            failed |-> TRUE]
      [] OTHER -> [skip |-> skip, failed |-> FALSE]

\* the try / catch of runValidation once the validator has settled with
\* outcome out: the new stop flag and whether there is a failure value
runValidationSettle(validation, out, skip) ==
    CASE out.how = "throw" -> [skip |-> TRUE, failed |-> TRUE]
      [] out.how = "return" ->
           [skip |-> IF validation.exitOnFail # "false" THEN TRUE ELSE skip,
            failed |-> TRUE]
      [] OTHER -> [skip |-> skip, failed |-> FALSE]

\* the error pushed on validationErrors for a failure value
pushedError(validation, out) ==
    LET error == getValidationErrorWithMessage(validation,
                     [message |-> out.message, code |-> out.code])
    IN [message |-> error.message, code |-> error.code,
        validationType |-> IF validation.type = Unset
                           THEN VALIDATION_TYPES.FIELD ELSE validation.type]

\* the state of a run: next validator, stop flag, errors so far, and the
\* indexes of the validators called so far
NewRun == [idx |-> 1, skip |-> FALSE, validationErrors |-> <<>>, invoked |-> <<>>]

\* one iteration of the loop over validations, validator call included
runStep(validations, run, valueToValidate, validationTypeToValidate) ==
    LET validation == validations[run.idx]
    IN IF runValidationSkips(validation, run.skip, validationTypeToValidate)
       THEN [run EXCEPT !.idx = @ + 1]
       ELSE LET out == Validator(validation.validator, valueToValidate)
                res == runValidationSettle(validation, out, run.skip)
            IN [idx |-> run.idx + 1,
                skip |-> res.skip,
                validationErrors |->
                    IF res.failed
                    THEN Append(run.validationErrors, pushedError(validation, out))
                    ELSE run.validationErrors,
                invoked |-> Append(run.invoked, run.idx)]

RECURSIVE forEachValidation(_, _, _, _)
forEachValidation(validations, run, valueToValidate, validationTypeToValidate) ==
    IF run.idx > Len(validations) THEN run
    ELSE forEachValidation(validations,
             runStep(validations, run, valueToValidate, validationTypeToValidate),
             valueToValidate, validationTypeToValidate)

validateSync(validations, valueToValidate, validationTypeToValidate) ==
    forEachValidation(validations, NewRun, valueToValidate, validationTypeToValidate)

\* ------------------------------------------------------------------------
\* Field configurations and inputs explored
\* ------------------------------------------------------------------------
FieldConfig(type, validations, formatters, isValidationAsync, serializer, deSerializer, defaultValue) ==
    [type |-> type, validations |-> validations, formatters |-> formatters,
     isValidationAsync |-> isValidationAsync, serializer |-> serializer,
     deSerializer |-> deSerializer, defaultValue |-> defaultValue]

\* FieldConfig.defaultValue: a literal or a zero-argument producer
DefaultLiteral(v) == [kind |-> "literal", v |-> v]

DefaultProducer(v) == [kind |-> "function", v |-> v]

RequiredThenAsync(isValidationAsync) ==
    FieldConfig(FIELD_TYPES.TEXT,
        << Validation("emptyField", Unset, Unset, Literal(<<"Field is required">>)),
           Validation("alwaysReturns", VALIDATION_TYPES.ASYNC, "true", NoMessage),
           Validation("alwaysThrows", VALIDATION_TYPES.ARRAY_ITEM, Unset, NoMessage) >>,
        <<>>, isValidationAsync, Unset, Unset, DefaultLiteral(Str(<<"a">>)))

AccumulateAll(isValidationAsync) ==
    FieldConfig(FIELD_TYPES.TEXT,
        << Validation("alwaysReturns", Unset, "false", NoMessage),
           Validation("isNumber", VALIDATION_TYPES.ARRAY_ITEM, "false", Computed),
           Validation("alwaysReturns", VALIDATION_TYPES.ASYNC, "false", NoMessage) >>,
        <<"toUpperCase", "appendA">>, isValidationAsync, "String", Unset,
        DefaultProducer(Str(<<"1">>)))

NumberField ==
    FieldConfig(FIELD_TYPES.NUMBER,
        << Validation("isNumber", Unset, Unset, NoMessage) >>,
        <<>>, FALSE, Unset, "toInt", DefaultLiteral(Str(<<"1">>)))

Configs ==
    {RequiredThenAsync(FALSE), RequiredThenAsync(TRUE), AccumulateAll(FALSE),
     AccumulateAll(TRUE), NumberField}

\* the values handed to setValue and validate
InputValues == {Undefined, Str(<<>>), Str(<<" ", "1">>)}

\* the change events handed to onChange: target.checked when the target owns
\* it, target.value otherwise
InputEvents ==
    {[hasChecked |-> TRUE, checked |-> TRUE, value |-> <<"a">>],
     [hasChecked |-> FALSE, checked |-> FALSE, value |-> <<" ">>]}

\* the validationType arguments handed to validate and clearErrors
ValidateTypes == {NoType, OneType(VALIDATION_TYPES.ARRAY_ITEM)}

ClearTypes ==
    {NoType, OneType(VALIDATION_TYPES.ASYNC),
     TypeArray(<<VALIDATION_TYPES.FIELD, VALIDATION_TYPES.ARRAY_ITEM>>)}

\* the lists handed to field.setErrors
ServerError == [message |-> <<"server">>, code |-> "ERR_SERVER", validationType |-> Unset]

ItemError ==
    [message |-> <<"item">>, code |-> "ERR_ITEM",
     validationType |-> VALIDATION_TYPES.ARRAY_ITEM]

FieldError ==
    [message |-> <<"bad">>, code |-> "ERR_BAD", validationType |-> VALIDATION_TYPES.FIELD]

InputErrors == {<<FieldError, ItemError, ServerError>>}

\* the paths of the form; path is this field's
path == "name"

Paths == {"name", "other"}

\* ------------------------------------------------------------------------
\* ElasticsearchNetworkAdapter: the pages of getNetworkTopNFlow and getNetworkDns
\* ------------------------------------------------------------------------
MaxCount == 3

DEFAULT_MAX_TABLE_QUERY_SIZE == 10000

FlowDirection == [uniDirectional |-> "uniDirectional", biDirectional |-> "biDirectional"]

\* n buckets of an aggregation, keyed from first on
Buckets(first, n) == [i \in 1..n |-> [key |-> first + i, doc_count |-> i]]

formatTopNFlowEdges(buckets, flowTarget) ==
    [i \in 1..Len(buckets) |->
        [node |-> [_id |-> buckets[i].key, target |-> flowTarget, ip |-> buckets[i].key],
         cursor |-> [value |-> buckets[i].key, tiebreaker |-> "null"]]]

formatDnsEdges(buckets) ==
    [i \in 1..Len(buckets) |->
        [node |-> [_id |-> buckets[i].key, dnsName |-> buckets[i].key,
                   queryCount |-> buckets[i].doc_count],
         cursor |-> [value |-> buckets[i].key, tiebreaker |-> "null"]]]

Thrown == [kind |-> "throws"]

\* the edges of a top-n-flow response, or the error thrown
getTopNFlowEdges(response, options) ==
    IF options.pagination.querySize >= DEFAULT_MAX_TABLE_QUERY_SIZE THEN Thrown
    ELSE IF options.flowDirection = FlowDirection.uniDirectional
    THEN [kind |-> "edges",
          edges |-> formatTopNFlowEdges(response.top_uni_flow, options.flowTarget)]
    ELSE [kind |-> "edges",
          edges |-> formatTopNFlowEdges(response.top_bi_flow, options.flowTarget)]

\* variant: the second argument is taken for an end index, as slice takes it
splice_AsSlice(list, start, deleteCount) ==
    LET actualStart == IF start > Len(list) THEN Len(list) ELSE start
        end == IF deleteCount > Len(list) THEN Len(list)
               ELSE IF deleteCount < 0 THEN 0 ELSE deleteCount
    IN SubSeq(list, actualStart + 1, end)

\* Array.prototype.splice(start, deleteCount) with a start that is not
\* negative: the elements removed
splice(list, start, deleteCount) ==
    LET actualStart == IF start > Len(list) THEN Len(list) ELSE start
        wanted == IF deleteCount < 0 THEN 0 ELSE deleteCount
        actualDeleteCount == IF wanted > Len(list) - actualStart
                             THEN Len(list) - actualStart ELSE wanted
    IN SubSeq(list, actualStart + 1, actualStart + actualDeleteCount)

getNetworkTopNFlow(options, response) ==
    LET pagination == options.pagination
        totalCount == response.top_n_flow_count
        networkTopNFlowEdges == getTopNFlowEdges(response, options)
        fakeTotalCount == IF pagination.fakePossibleCount <= totalCount
                          THEN pagination.fakePossibleCount ELSE totalCount
        showMorePagesIndicator == totalCount > fakeTotalCount
    IN IF networkTopNFlowEdges.kind = "throws" THEN Thrown
       ELSE [kind |-> "result",
             edges |-> splice(networkTopNFlowEdges.edges, pagination.cursorStart,
                              pagination.querySize - pagination.cursorStart),
             pageInfo |-> [activePage |-> IF pagination.activePage # 0
                                          THEN pagination.activePage ELSE 0,
                           fakeTotalCount |-> fakeTotalCount,
                           showMorePagesIndicator |-> showMorePagesIndicator],
             totalCount |-> totalCount]

getNetworkDns(options, response) ==
    LET pagination == options.pagination
        totalCount == response.dns_count
        networkDnsEdges == formatDnsEdges(response.dns_name_query_count)
        fakeTotalCount == IF pagination.fakePossibleCount <= totalCount
                          THEN pagination.fakePossibleCount ELSE totalCount
        showMorePagesIndicator == totalCount > fakeTotalCount
    IN [kind |-> "result",
        edges |-> splice(networkDnsEdges, pagination.cursorStart,
                         pagination.querySize - pagination.cursorStart),
        pageInfo |-> [activePage |-> IF pagination.activePage # 0
                                     THEN pagination.activePage ELSE 0,
                      fakeTotalCount |-> fakeTotalCount,
                      showMorePagesIndicator |-> showMorePagesIndicator],
        totalCount |-> totalCount]

\* the pagination options and the search responses explored
Paginations ==
    [activePage : {0, 2},
     cursorStart : 0..MaxCount,
     fakePossibleCount : 0..MaxCount,
     querySize : 0..MaxCount \cup {DEFAULT_MAX_TABLE_QUERY_SIZE}]

NetworkOptions ==
    [pagination : Paginations,
     flowDirection : {FlowDirection.uniDirectional, FlowDirection.biDirectional},
     flowTarget : {"source"}]

SearchResponses ==
    {[top_n_flow_count |-> count, dns_count |-> count,
      top_uni_flow |-> Buckets(0, n), top_bi_flow |-> Buckets(10, n),
      dns_name_query_count |-> Buckets(20, n)] : count \in 0..MaxCount, n \in 0..MaxCount}

\* no request has been made to the adapter
Idle == [method |-> "none"]

\* ------------------------------------------------------------------------
\* State
\* ------------------------------------------------------------------------
VARIABLES
    config,              \* the FieldConfig passed to useField
    value,               \* useState: the field's value
    errors,              \* useState: the list of ValidationErrors
    isPristine,          \* useState
    isValidating,        \* useState
    isUpdating,          \* useState
    validateCounter,     \* useRef: sequence number of the last validate call
    debounceTimeout,     \* useRef: handle of the last timer armed, 0 for null
    timers,              \* handles of the timers armed and not yet fired or cleared
    timerSeq,            \* the last timer handle given out by setTimeout
    field,               \* the state captured by the closures of the last render
    formData,            \* the Form Coordinator's data store, by path
    runs,                \* the asynchronous validation runs in flight, by iteration
    started,             \* the arguments of every validate call, by iteration
    responses,           \* the FieldValidateResponse every finished call returned
    superseded,          \* the calls that returned after a later call was issued
    validateFieldsCalls, \* the paths lists given to form.__validateFields, in call order
    ops,                 \* number of calls of the field's operations
    last,                \* the last operation called and the state it started from
    mounted,             \* the component that called useField is mounted
    registered,          \* the Form Coordinator holds a field handle for path
    formatters,          \* the formatters list of the config object, as it is now
    network              \* the request made to the network adapter and its reply

vars ==
    <<config, value, errors, isPristine, isValidating, isUpdating, validateCounter,
      debounceTimeout, timers, timerSeq, field, formData, runs, started, responses,
      superseded, validateFieldsCalls, ops, last, mounted, registered, formatters,
      network>>

\* the config object as the hook sees it now
CurrentConfig == [config EXCEPT !.formatters = formatters]

\* what the closures of one render capture
Rendered(v, e, pristine) == [value |-> v, errors |-> e, isPristine |-> pristine]

Called(op, input, types) ==
    [op |-> op, input |-> input, types |-> types, errors |-> errors,
     requests |-> Len(validateFieldsCalls)]

InitialValue(cfg) == ApplySerializer(cfg.deSerializer, cfg.defaultValue.v)

\* the field after its first render
InitField ==
    /\ config \in Configs
    /\ value = InitialValue(config)
    /\ errors = <<>>
    /\ isPristine = TRUE
    /\ isValidating = FALSE
    /\ isUpdating = FALSE
    /\ validateCounter = 0
    /\ debounceTimeout = 0
    /\ timers = {}
    /\ timerSeq = 0
    /\ field = Rendered(InitialValue(config), <<>>, TRUE)
    /\ formData = [p \in Paths |-> Undefined]
    /\ runs = <<>>
    /\ started = <<>>
    /\ responses = <<>>
    /\ superseded = {}
    /\ validateFieldsCalls = <<>>
    /\ ops = 0
    /\ last = [op |-> "none", input |-> Undefined, types |-> NoType, errors |-> <<>>,
               requests |-> 0]
    /\ mounted = TRUE
    /\ registered = TRUE
    /\ formatters = setDefaultFormatter(config)

\* variant: the first render does not call form.__addField
Init_NotRegistered ==
    /\ config \in Configs
    /\ value = InitialValue(config)
    /\ errors = <<>>
    /\ isPristine = TRUE
    /\ isValidating = FALSE
    /\ isUpdating = FALSE
    /\ validateCounter = 0
    /\ debounceTimeout = 0
    /\ timers = {}
    /\ timerSeq = 0
    /\ field = Rendered(InitialValue(config), <<>>, TRUE)
    /\ formData = [p \in Paths |-> Undefined]
    /\ runs = <<>>
    /\ started = <<>>
    /\ responses = <<>>
    /\ superseded = {}
    /\ validateFieldsCalls = <<>>
    /\ ops = 0
    /\ last = [op |-> "none", input |-> Undefined, types |-> NoType, errors |-> <<>>,
               requests |-> 0]
    /\ mounted = TRUE
    /\ registered = FALSE
    /\ formatters = setDefaultFormatter(config)
    /\ network = Idle

Init == InitField /\ network = Idle

\* ------------------------------------------------------------------------
\* setValue, onChange and the debounce timer
\* ------------------------------------------------------------------------
getOutputValue(rawValue) ==
    ApplySerializer(config.serializer,
                    IF rawValue = Undefined THEN field.value ELSE rawValue)

\* variant: the pending timer is not cleared before a new one is armed
onValueChange_KeepsPendingTimer ==
    /\ isPristine' = IF field.isPristine THEN FALSE ELSE isPristine
    /\ isUpdating' = TRUE
    /\ timerSeq' = timerSeq + 1
    /\ timers' = timers \cup {timerSeq + 1}
    /\ debounceTimeout' = timerSeq + 1

\* variant: setPristine(!isPristine)
onValueChange_TogglesPristine ==
    /\ isPristine' = ~field.isPristine
    /\ isUpdating' = TRUE
    /\ timerSeq' = timerSeq + 1
    /\ timers' = (timers \ {debounceTimeout}) \cup {timerSeq + 1}
    /\ debounceTimeout' = timerSeq + 1

onValueChange ==
    /\ isPristine' = IF field.isPristine THEN FALSE ELSE isPristine
    /\ isUpdating' = TRUE
    /\ timerSeq' = timerSeq + 1
    /\ timers' = (timers \ {debounceTimeout}) \cup {timerSeq + 1}
    /\ debounceTimeout' = timerSeq + 1

\* variant: a new value clears the field errors
setValue_ClearsErrors(newValue) ==
    LET formattedValue == runFormatters(CurrentConfig, newValue)
    IN /\ onValueChange
       /\ value' = formattedValue
       /\ formData' = [formData EXCEPT ![path] = getOutputValue(formattedValue)]
       /\ errors' = filterErrors(errors, NoType)
       /\ UNCHANGED <<config, network, formatters, mounted, registered,
                      isValidating, validateCounter, field, runs,
                      started, responses, superseded, validateFieldsCalls>>

setValue(newValue) ==
    LET formattedValue == runFormatters(CurrentConfig, newValue)
    IN /\ onValueChange
       /\ value' = formattedValue
       /\ formData' = [formData EXCEPT ![path] = getOutputValue(formattedValue)]
       /\ UNCHANGED <<config, network, formatters, mounted, registered,
                      errors, isValidating, validateCounter, field, runs,
                      started, responses, superseded, validateFieldsCalls>>

SetValue ==
    \E newValue \in InputValues :
        /\ mounted /\ ops < MaxOps
        /\ ops' = ops + 1
        /\ last' = Called("setValue", newValue, NoType)
        /\ setValue(newValue)

OnChange ==
    \E event \in InputEvents :
        LET newValue == IF event.hasChecked THEN Bool(event.checked)
                        ELSE Str(event.value)
        IN /\ mounted /\ ops < MaxOps
           /\ ops' = ops + 1
           /\ last' = Called("onChange", newValue, NoType)
           /\ setValue(newValue)

\* the callback of setTimeout in onValueChange
TimerExpiry ==
    \E t \in timers :
        /\ timers' = timers \ {t}
        /\ isUpdating' = IF mounted THEN FALSE ELSE isUpdating
        /\ UNCHANGED <<config, network, formatters, mounted, registered,
                       value, errors, isPristine, isValidating, validateCounter,
                       debounceTimeout, timerSeq, field, formData, runs, started,
                       responses, superseded, validateFieldsCalls, ops, last>>

\* FieldConfig.fieldsToValidateOnChange, left to its default by every
\* configuration explored
fieldsToValidateOnChange == <<path>>

\* variant: the effect has no dependency list and runs after every render
Render_EffectOnEveryRender ==
    /\ mounted
    /\ field # Rendered(value, errors, isPristine)
    /\ field' = Rendered(value, errors, isPristine)
    /\ registered' = TRUE
    /\ formatters' = setDefaultFormatter(CurrentConfig)
    /\ validateFieldsCalls' =
           IF ~isPristine
           THEN Append(validateFieldsCalls, fieldsToValidateOnChange)
           ELSE validateFieldsCalls
    /\ UNCHANGED <<config, network, mounted, value, errors, isPristine, isValidating, isUpdating,
                   validateCounter, debounceTimeout, timers, timerSeq, formData, runs,
                   started, responses, superseded, ops, last>>

\* a re-render after a state change: the closures capture the new state and
\* the effect on [value] runs when the value has changed
Render ==
    /\ mounted
    /\ field # Rendered(value, errors, isPristine)
    /\ field' = Rendered(value, errors, isPristine)
    /\ registered' = TRUE
    /\ formatters' = setDefaultFormatter(CurrentConfig)
    /\ validateFieldsCalls' =
           IF value # field.value /\ ~isPristine
           THEN Append(validateFieldsCalls, fieldsToValidateOnChange)
           ELSE validateFieldsCalls
    /\ UNCHANGED <<config, network, mounted, value, errors, isPristine, isValidating, isUpdating,
                   validateCounter, debounceTimeout, timers, timerSeq, formData, runs,
                   started, responses, superseded, ops, last>>

\* the component is unmounted: the Form Coordinator drops the field; the
\* timer armed and the runs in flight are left as they are
Unmount ==
    /\ mounted /\ ops < MaxOps
    /\ ops' = ops + 1
    /\ last' = Called("unmount", Undefined, NoType)
    /\ mounted' = FALSE
    /\ registered' = FALSE
    /\ UNCHANGED <<config, network, formatters, value, errors, isPristine, isValidating, isUpdating,
                   validateCounter, debounceTimeout, timers, timerSeq, field, formData,
                   runs, started, responses, superseded, validateFieldsCalls>>

\* ------------------------------------------------------------------------
\* clearErrors and setErrors
\* ------------------------------------------------------------------------
clearErrors(previousErrors, validationType) == filterErrors(previousErrors, validationType)

ClearErrors ==
    \E validationType \in ClearTypes :
        /\ mounted /\ ops < MaxOps
        /\ ops' = ops + 1
        /\ last' = Called("clearErrors", Undefined, validationType)
        /\ errors' = clearErrors(errors, validationType)
        /\ UNCHANGED <<config, network, formatters, mounted, registered,
                       value, isPristine, isValidating, isUpdating,
                       validateCounter, debounceTimeout, timers, timerSeq, field,
                       formData, runs, started, responses, superseded, validateFieldsCalls>>

SetErrors ==
    \E newErrors \in InputErrors :
        /\ mounted /\ ops < MaxOps
        /\ ops' = ops + 1
        /\ last' = Called("setErrors", Undefined, NoType)
        /\ errors' = newErrors
        /\ UNCHANGED <<config, network, formatters, mounted, registered,
                       value, isPristine, isValidating, isUpdating,
                       validateCounter, debounceTimeout, timers, timerSeq, field,
                       formData, runs, started, responses, superseded, validateFieldsCalls>>

\* ------------------------------------------------------------------------
\* validate
\* ------------------------------------------------------------------------
\* the values handed to validate as validationData.value (Undefined: none)
ValidateValues == {Undefined, Str(<<>>)}

\* variant: the results are applied whatever the counter says
onValidationResult_IgnoresCounter(validateIteration, counter, validating, previousErrors, validationType, validationErrors) ==
    [isValidating |-> FALSE,
     errors |-> filterErrors(previousErrors, validationType) \o validationErrors,
     response |-> [isValid |-> Len(validationErrors) = 0,
                   errors |-> validationErrors]]

\* variant: setValidating(false) is left out
onValidationResult_KeepsValidating(validateIteration, counter, validating, previousErrors, validationType, validationErrors) ==
    [isValidating |-> validating,
     errors |-> IF validateIteration = counter
                THEN filterErrors(previousErrors, validationType) \o validationErrors
                ELSE previousErrors,
     response |-> [isValid |-> Len(validationErrors) = 0,
                   errors |-> validationErrors]]

\* variant: a superseded call returns an empty, valid response
onValidationResult_StaleReturnsNothing(validateIteration, counter, validating, previousErrors, validationType, validationErrors) ==
    IF validateIteration = counter
    THEN [isValidating |-> FALSE,
          errors |-> filterErrors(previousErrors, validationType) \o validationErrors,
          response |-> [isValid |-> Len(validationErrors) = 0,
                        errors |-> validationErrors]]
    ELSE [isValidating |-> validating,
          errors |-> previousErrors,
          response |-> [isValid |-> TRUE, errors |-> <<>>]]

\* onValidationResult of the call numbered validateIteration, when the counter
\* is counter: the new isValidating and errors, and the response returned
onValidationResult(validateIteration, counter, validating, previousErrors, validationType, validationErrors) ==
    [isValidating |-> IF validateIteration = counter THEN FALSE ELSE validating,
     errors |-> IF validateIteration = counter
                THEN filterErrors(previousErrors, validationType) \o validationErrors
                ELSE previousErrors,
     response |-> [isValid |-> Len(validationErrors) = 0,
                   errors |-> validationErrors]]

\* validate of a field with isValidationAsync = false: the whole call
ValidateSyncCall(valueToValidate, validationType) ==
    LET validateIteration == validateCounter + 1
        run == validateSync(config.validations, valueToValidate, validationType)
        result == onValidationResult(validateIteration, validateIteration, TRUE,
                                     errors, validationType, run.validationErrors)
    IN /\ validateCounter' = validateIteration
       /\ isValidating' = result.isValidating
       /\ errors' = result.errors
       /\ runs' = runs
       /\ started' = Append(started,
              [value |-> valueToValidate, validationType |-> validationType,
               formData |-> formData, invoked |-> run.invoked])
       /\ responses' = (validateIteration :> result.response) @@ responses
       /\ superseded' = superseded

\* validate of a field with isValidationAsync = true, up to the first await:
\* variant: the errors are left alone until the results are applied
ValidateAsyncCall_KeepsErrors(valueToValidate, validationType) ==
    LET validateIteration == validateCounter + 1
    IN /\ validateCounter' = validateIteration
       /\ isValidating' = TRUE
       /\ errors' = errors
       /\ runs' = (validateIteration :>
                      [idx |-> 1, skip |-> FALSE, validationErrors |-> <<>>,
                       invoked |-> <<>>, awaiting |-> FALSE]) @@ runs
       /\ started' = Append(started,
              [value |-> valueToValidate, validationType |-> validationType,
               formData |-> formData, invoked |-> <<>>])
       /\ responses' = responses
       /\ superseded' = superseded

\* validateAsync clears the field and async errors and queues the validators
ValidateAsyncCall(valueToValidate, validationType) ==
    LET validateIteration == validateCounter + 1
    IN /\ validateCounter' = validateIteration
       /\ isValidating' = TRUE
       /\ errors' = clearErrors(errors,
              TypeArray(<<VALIDATION_TYPES.FIELD, VALIDATION_TYPES.ASYNC>>))
       /\ runs' = (validateIteration :>
                      [idx |-> 1, skip |-> FALSE, validationErrors |-> <<>>,
                       invoked |-> <<>>, awaiting |-> FALSE]) @@ runs
       /\ started' = Append(started,
              [value |-> valueToValidate, validationType |-> validationType,
               formData |-> formData, invoked |-> <<>>])
       /\ responses' = responses
       /\ superseded' = superseded

Validate ==
    \E givenValue \in ValidateValues, validationType \in ValidateTypes :
        LET valueToValidate == IF givenValue = Undefined THEN field.value
                               ELSE givenValue
        IN /\ mounted /\ ops < MaxOps
           /\ validateCounter < MaxValidate
           /\ ops' = ops + 1
           /\ last' = Called("validate", givenValue, validationType)
           /\ IF config.isValidationAsync
              THEN ValidateAsyncCall(valueToValidate, validationType)
              ELSE ValidateSyncCall(valueToValidate, validationType)
           /\ UNCHANGED <<config, network, formatters, mounted, registered,
                          value, isPristine, isUpdating, debounceTimeout,
                          timers, timerSeq, field, formData, validateFieldsCalls>>

RunIds == DOMAIN runs

\* variant: the validators left are all called without awaiting one another
RECURSIVE nextCall_CallsAllAtOnce(_, _, _)
nextCall_CallsAllAtOnce(validations, run, validationTypeToValidate) ==
    IF run.idx > Len(validations) THEN run
    ELSE IF runValidationSkips(validations[run.idx], run.skip, validationTypeToValidate)
         THEN nextCall_CallsAllAtOnce(validations, [run EXCEPT !.idx = @ + 1],
                                      validationTypeToValidate)
         ELSE [run EXCEPT
                 !.awaiting = TRUE,
                 !.invoked = SelectSeq([i \in 1..Len(validations) |-> i],
                     LAMBDA i : \/ i \in {run.invoked[k] : k \in 1..Len(run.invoked)}
                                \/ /\ i >= run.idx
                                   /\ ~runValidationSkips(validations[i], run.skip,
                                                          validationTypeToValidate))]

\* the chain of .then callbacks of an asynchronous run moves on from
\* validations[run.idx]: runValidation returns at once for the validators
\* that are not to be called (stop flag, other validation type) and awaits
\* the first one that is
RECURSIVE nextCall(_, _, _)
nextCall(validations, run, validationTypeToValidate) ==
    IF run.idx > Len(validations) THEN run
    ELSE IF runValidationSkips(validations[run.idx], run.skip, validationTypeToValidate)
         THEN nextCall(validations, [run EXCEPT !.idx = @ + 1], validationTypeToValidate)
         ELSE [run EXCEPT !.awaiting = TRUE, !.invoked = Append(@, run.idx)]

\* the first callback of the chain runs, after the code that called validate
AsyncInvoke ==
    \E r \in RunIds :
        LET run == runs[r]
        IN /\ ~run.awaiting
           /\ run.idx <= Len(config.validations)
           /\ runs' = [runs EXCEPT ![r] =
                  nextCall(config.validations, run, started[r].validationType)]
           /\ started' = [started EXCEPT ![r].invoked = runs'[r].invoked]
           /\ UNCHANGED <<config, network, formatters, mounted, registered,
                          value, errors, isPristine, isValidating, isUpdating,
                          validateCounter, debounceTimeout, timers, timerSeq, field,
                          formData, responses, superseded, validateFieldsCalls, ops,
                          last>>

\* variant: a run that finds itself superseded when its validator settles
\* calls no further validator
AsyncSettle_CancelsStale ==
    \E r \in RunIds :
        LET run == runs[r]
            validation == config.validations[run.idx]
            out == Validator(validation.validator, started[r].value)
            res == runValidationSettle(validation, out, run.skip)
            settled == [idx |-> IF r # validateCounter
                                THEN Len(config.validations) + 1
                                ELSE run.idx + 1,
                        skip |-> res.skip,
                        validationErrors |->
                            IF res.failed
                            THEN Append(run.validationErrors,
                                        pushedError(validation, out))
                            ELSE run.validationErrors,
                        invoked |-> run.invoked,
                        awaiting |-> FALSE]
        IN /\ run.awaiting
           /\ runs' = [runs EXCEPT ![r] =
                  nextCall(config.validations, settled, started[r].validationType)]
           /\ started' = [started EXCEPT ![r].invoked = runs'[r].invoked]
           /\ UNCHANGED <<config, network, formatters, mounted, registered,
                          value, errors, isPristine, isValidating, isUpdating,
                          validateCounter, debounceTimeout, timers, timerSeq, field,
                          formData, responses, superseded, validateFieldsCalls, ops,
                          last>>

\* the validator an asynchronous run awaits settles: the try / catch of
\* runValidation, the push of the error, and the chain moves on
AsyncSettle ==
    \E r \in RunIds :
        LET run == runs[r]
            validation == config.validations[run.idx]
            out == Validator(validation.validator, started[r].value)
            res == runValidationSettle(validation, out, run.skip)
            settled == [idx |-> run.idx + 1,
                        skip |-> res.skip,
                        validationErrors |->
                            IF res.failed
                            THEN Append(run.validationErrors,
                                        pushedError(validation, out))
                            ELSE run.validationErrors,
                        invoked |-> run.invoked,
                        awaiting |-> FALSE]
        IN /\ run.awaiting
           /\ runs' = [runs EXCEPT ![r] =
                  nextCall(config.validations, settled, started[r].validationType)]
           /\ started' = [started EXCEPT ![r].invoked = runs'[r].invoked]
           /\ UNCHANGED <<config, network, formatters, mounted, registered,
                          value, errors, isPristine, isValidating, isUpdating,
                          validateCounter, debounceTimeout, timers, timerSeq, field,
                          formData, responses, superseded, validateFieldsCalls, ops,
                          last>>

\* validateAsync has resolved: the .then(onValidationResult) of validate
AsyncResult ==
    \E r \in RunIds :
        LET run == runs[r]
            result == onValidationResult(r, validateCounter, isValidating, errors,
                                         started[r].validationType,
                                         run.validationErrors)
        IN /\ ~run.awaiting
           /\ run.idx > Len(config.validations)
           /\ isValidating' = IF mounted THEN result.isValidating ELSE isValidating
           /\ errors' = IF mounted THEN result.errors ELSE errors
           /\ responses' = (r :> result.response) @@ responses
           /\ superseded' = IF r # validateCounter THEN superseded \cup {r}
                            ELSE superseded
           /\ runs' = [i \in RunIds \ {r} |-> runs[i]]
           /\ UNCHANGED <<config, network, formatters, mounted, registered,
                          value, isPristine, isUpdating, validateCounter,
                          debounceTimeout, timers, timerSeq, field, formData, started,
                          validateFieldsCalls, ops, last>>

\* ------------------------------------------------------------------------
\* Specification
\* ------------------------------------------------------------------------
\* the reduce of getErrorsMessages: the messages of the matching errors
RECURSIVE reduceMessages(_, _, _)
reduceMessages(_errors, validationType, messages) ==
    IF _errors = <<>> THEN messages
    ELSE LET error == Head(_errors)
             matches ==
                 \/ error.validationType = validationType
                 \/ validationType = VALIDATION_TYPES.FIELD /\ error.validationType = Unset
         IN reduceMessages(Tail(_errors), validationType,
                IF ~matches THEN messages
                ELSE IF messages # <<>> THEN messages \o <<", ">> \o error.message
                ELSE error.message)

Null == [isNull |-> TRUE, text |-> <<>>]

\* getErrorsMessages over the errors a field handle holds
getErrorsMessages(_errors, validationType) ==
    LET type == IF validationType.kind = Unset THEN VALIDATION_TYPES.FIELD
                ELSE validationType.types[1]
        errorMessages == reduceMessages(_errors, type, <<>>)
    IN IF errorMessages # <<>> THEN [isNull |-> FALSE, text |-> errorMessages] ELSE Null

Next ==
    \/ SetValue
    \/ OnChange
    \/ TimerExpiry
    \/ Render
    \/ Unmount
    \/ ClearErrors
    \/ SetErrors
    \/ Validate
    \/ AsyncInvoke
    \/ AsyncSettle
    \/ AsyncResult

Spec == Init /\ [][Next]_vars

\* the callbacks of the promise chain of a started run are eventually run:
\* every validator settles and every settled promise has its .then called
FairSpec ==
    /\ Spec
    /\ WF_vars(AsyncInvoke)
    /\ WF_vars(AsyncSettle)
    /\ WF_vars(AsyncResult)

\* ------------------------------------------------------------------------
\* The network adapter answers one request
\* ------------------------------------------------------------------------
Asked(method) == network.method = "none" /\ method \in {"getNetworkTopNFlow", "getNetworkDns"}

GetNetworkTopNFlow ==
    /\ Asked("getNetworkTopNFlow")
    /\ network' = [network EXCEPT
           !.method = "getNetworkTopNFlow",
           !.reply = getNetworkTopNFlow(network.options, network.response)]
    /\ UNCHANGED <<config, value, errors, isPristine, isValidating, isUpdating,
                   validateCounter, debounceTimeout, timers, timerSeq, field, formData,
                   runs, started, responses, superseded, validateFieldsCalls, ops, last,
                   mounted, registered, formatters>>

GetNetworkDns ==
    /\ Asked("getNetworkDns")
    /\ network' = [network EXCEPT
           !.method = "getNetworkDns",
           !.reply = getNetworkDns(network.options, network.response)]
    /\ UNCHANGED <<config, value, errors, isPristine, isValidating, isUpdating,
                   validateCounter, debounceTimeout, timers, timerSeq, field, formData,
                   runs, started, responses, superseded, validateFieldsCalls, ops, last,
                   mounted, registered, formatters>>

NetworkInit ==
    /\ InitField
    /\ config = NumberField
    /\ network \in [method : {"none"}, options : NetworkOptions,
                     response : SearchResponses, reply : {Idle}]

NetworkNext == GetNetworkTopNFlow \/ GetNetworkDns

NetworkSpec == NetworkInit /\ [][NetworkNext]_vars

\* ------------------------------------------------------------------------
\* Properties
\* ------------------------------------------------------------------------
\* the validate calls that have returned their response
Finished == DOMAIN responses

\* the value and the validation type a validate call ran with
RunValue(r) == started[r].value

RunType(r) == started[r].validationType

OutcomeOf(r, i) == Validator(config.validations[i].validator, RunValue(r))

Fails(r, i) == OutcomeOf(r, i).how # "pass"

\* number of clearErrors and setErrors calls so far
ErrorOps == ops - timerSeq - Len(started)

\* C1: when an asynchronous run finishes after a later validate call was
\* issued (validateCounter no longer equals its iteration), that step leaves
\* errors and isValidating as they were.
C1_StaleResultNotApplied ==
    [][\A r \in DOMAIN runs :
          (r \notin DOMAIN runs' /\ validateCounter # r)
              => (errors' = errors /\ isValidating' = isValidating)]_vars

\* a superseded run has finished with errors of its own, and so has the
\* run that superseded it
C1_Witness ==
    \E r \in Finished :
        /\ r \in superseded
        /\ responses[r].errors # <<>>
        /\ validateCounter \in Finished
        /\ errors # <<>>

\* C2: once every validate call (none of them restricted to a validation
\* type, no clearErrors or setErrors in between) has finished, errors is
\* the error list of the most recently started run.
C2_ErrorsAreLastRunErrors ==
    (/\ runs = <<>>
     /\ validateCounter > 0
     /\ ErrorOps = 0
     /\ \A r \in 1..Len(started) : RunType(r) = NoType)
        => errors = responses[validateCounter].errors

\* the validators a validate call has called so far, in call order
Calls(r) == started[r].invoked

\* the error list of a run, finished or in flight
RunErrors(r) ==
    IF r \in Finished THEN responses[r].errors ELSE runs[r].validationErrors

ErrorOf(r, i) == pushedError(config.validations[i], OutcomeOf(r, i))

\* the errors of the failing validators among the indexes listed, in order
FailuresAmong(r, indexes) ==
    LET failing == SelectSeq(indexes, LAMBDA i : Fails(r, i))
    IN [k \in 1..Len(failing) |-> ErrorOf(r, failing[k])]

NumValidations == Len(config.validations)

\* every validate call issued is in flight or has returned a response
NoCallLost == \A r \in 1..validateCounter : r \in Finished \/ r \in DOMAIN runs

\* C3: every finished validate call, superseded or not, returned
\* {isValid, errors} where errors lists the failures of the validators that
\* run called, in call order, and isValid says that the list is empty.
C3_ResponseIsOwnRunResult ==
    /\ NoCallLost
    /\ \A r \in Finished :
          /\ responses[r].errors = FailuresAmong(r, Calls(r))
          /\ responses[r].isValid = (FailuresAmong(r, Calls(r)) = <<>>)

\* a run superseded before it finished returned its own errors, which are
\* not those of the run that superseded it
C3_Witness ==
    \E r \in Finished, q \in Finished :
        /\ r < q
        /\ r \in superseded
        /\ ~responses[r].isValid
        /\ responses[q].errors # responses[r].errors

NoExitOnFailFalse ==
    \A i \in 1..NumValidations : config.validations[i].exitOnFail # "false"

AllExitOnFailFalse ==
    \A i \in 1..NumValidations : config.validations[i].exitOnFail = "false"

\* C4: when no validator has exitOnFail: false, a run calls validators in
\* declared order, only its last call can be a failing one, and its error
\* list is that failing validator's error alone.
C4_FirstFailureStopsRun ==
    NoExitOnFailFalse =>
        \A r \in 1..Len(started) :
            LET calls == Calls(r)
                n == Len(calls)
            IN /\ \A k \in 1..(n - 1) : calls[k] < calls[k + 1] /\ ~Fails(r, calls[k])
               /\ Len(RunErrors(r)) <= 1
               /\ RunErrors(r) # <<>> =>
                      /\ n > 0
                      /\ Fails(r, calls[n])
                      /\ RunErrors(r) = <<ErrorOf(r, calls[n])>>
               /\ (r \in Finished /\ n > 0 /\ Fails(r, calls[n])) => RunErrors(r) # <<>>

\* an asynchronous run stopped at its second validator and left a later one
\* uncalled
C4_Witness ==
    /\ NoExitOnFailFalse
    /\ config.isValidationAsync
    /\ \E r \in Finished :
          /\ Len(Calls(r)) = 2
          /\ NumValidations > 2
          /\ RunType(r) = NoType
          /\ Len(responses[r].errors) = 1

UpTo(n) == [i \in 1..n |-> i]

Throws(r, i) == OutcomeOf(r, i).how = "throw"

\* the first validator that throws on the run's value, the last validator
\* when none does
FirstThrow(r) ==
    IF \E i \in 1..NumValidations : Throws(r, i)
    THEN CHOOSE i \in 1..NumValidations :
             Throws(r, i) /\ \A j \in 1..(i - 1) : ~Throws(r, j)
    ELSE NumValidations

\* C5 as stated: when every validator has exitOnFail: false, an unrestricted
\* run calls all validators and its error list holds all failures in order,
\* thrown or returned.
C5_AllValidatorsRun ==
    AllExitOnFailFalse =>
        \A r \in Finished :
            RunType(r) = NoType =>
                /\ Calls(r) = UpTo(NumValidations)
                /\ responses[r].errors = FailuresAmong(r, UpTo(NumValidations))

\* C5 amended: when every validator has exitOnFail: false, an unrestricted
\* run calls the validators in order up to and including the first one that
\* throws (all of them when none throws) and its error list holds the
\* failures of those in order; the stop flag is set only by a throw.
C5_AllRunUntilThrow ==
    AllExitOnFailFalse =>
        /\ \A r \in Finished :
              RunType(r) = NoType =>
                  /\ Calls(r) = UpTo(FirstThrow(r))
                  /\ responses[r].errors = FailuresAmong(r, UpTo(FirstThrow(r)))
        /\ \A r \in DOMAIN runs :
              runs[r].skip => \E k \in 1..Len(Calls(r)) : Throws(r, Calls(r)[k])

\* a finished run called every validator and accumulated two returned failures
C5_Witness ==
    /\ AllExitOnFailFalse
    /\ \E r \in Finished :
          /\ RunType(r) = NoType
          /\ Calls(r) = UpTo(NumValidations)
          /\ Len(responses[r].errors) >= 2

\* the error list of a run in which every failure counts as a returned one
RECURSIVE ReturnedFrom(_, _, _)
ReturnedFrom(r, i, skip) ==
    IF i > NumValidations THEN <<>>
    ELSE IF runValidationSkips(config.validations[i], skip, RunType(r))
             \/ ~Fails(r, i)
         THEN ReturnedFrom(r, i + 1, skip)
         ELSE <<ErrorOf(r, i)>>
              \o ReturnedFrom(r, i + 1,
                              skip \/ config.validations[i].exitOnFail # "false")

\* C6 as stated: a finished run in which a validator threw returned what it
\* would have returned had that validator returned the same failure value.
C6_ThrowSameAsReturn ==
    /\ NoCallLost
    /\ \A r \in Finished :
          (\E k \in 1..Len(Calls(r)) : Throws(r, Calls(r)[k])) =>
              responses[r] = [isValid |-> FALSE, errors |-> ReturnedFrom(r, 1, FALSE)]

\* C6 amended: a validator that throws never loses the call its response;
\* the response has isValid = false and the thrown value as the last error
\* of the list, tagged with the validator's type; the response is the one a
\* returned failure would give when the validator's exitOnFail is not false
\* (with exitOnFail: false a throw stops the run and a return does not).
C6_ThrowBecomesError ==
    /\ NoCallLost
    /\ \A r \in Finished :
          \A k \in 1..Len(Calls(r)) :
              LET i == Calls(r)[k]
                  errs == responses[r].errors
              IN Throws(r, i) =>
                    /\ ~responses[r].isValid
                    /\ errs # <<>>
                    /\ errs[Len(errs)] = ErrorOf(r, i)
                    /\ errs[Len(errs)].validationType =
                           (IF config.validations[i].type = Unset
                            THEN VALIDATION_TYPES.FIELD
                            ELSE config.validations[i].type)
                    /\ k = Len(Calls(r))
                    /\ config.validations[i].exitOnFail # "false" =>
                           errs = ReturnedFrom(r, 1, FALSE)

\* an asynchronous run finished after a validator with the default
\* exitOnFail threw
C6_Witness ==
    /\ config.isValidationAsync
    /\ \E r \in Finished :
          \E k \in 1..Len(Calls(r)) :
              /\ Throws(r, Calls(r)[k])
              /\ config.validations[Calls(r)[k]].exitOnFail = Unset
              /\ ~responses[r].isValid

\* C7: isPristine is true exactly as long as no setValue (or onChange) has
\* been called, and no step takes it from false back to true.
C7_PristineOneWay ==
    [][/\ isPristine' = (timerSeq' = 0)
       /\ ~isPristine => ~isPristine']_vars

\* after a value change, the timer's expiry and a validate call the field is
\* still not pristine
C7_Witness ==
    /\ ~isPristine
    /\ timerSeq >= 1
    /\ validateCounter >= 1
    /\ timers = {}

\* the set of types a validationType argument names
TypeSet(validationType) ==
    IF validationType.kind = Unset THEN {VALIDATION_TYPES.FIELD}
    ELSE {validationType.types[i] : i \in 1..Len(validationType.types)}

Without(errs, types) == SelectSeq(errs, LAMBDA e : e.validationType \notin types)

\* C8: a clearErrors call leaves in errors exactly the errors whose
\* validationType is not among the types given ('field' when none is given),
\* in their order.
C8_ClearErrorsRemovesOnlyType ==
    [][(ops' = ops + 1 /\ last'.op = "clearErrors")
          => errors' = Without(errors, TypeSet(last'.types))]_vars

\* clearErrors('async') was called on a list holding a 'field' and an 'async'
\* error
C8_Witness ==
    /\ last.op = "clearErrors"
    /\ last.types = OneType(VALIDATION_TYPES.ASYNC)
    /\ \E i \in 1..Len(last.errors) :
          last.errors[i].validationType = VALIDATION_TYPES.FIELD
    /\ \E i \in 1..Len(last.errors) :
          last.errors[i].validationType = VALIDATION_TYPES.ASYNC
    /\ errors = Without(last.errors, {VALIDATION_TYPES.ASYNC})

\* the formatters applied one after the other, first to last
RECURSIVE InOrder(_, _)
InOrder(list, x) ==
    IF list = <<>> THEN x
    ELSE ApplyFormatter(list[Len(list)],
                        InOrder(SubSeq(list, 1, Len(list) - 1), x))

WhitespaceOnly(x) == x.t = "string" /\ \A i \in 1..Len(x.s) : x.s[i] = " "

LastWasSetValue == last.op \in {"setValue", "onChange"}

\* C9 as stated: after setValue(x) the value is the configured formatters
\* applied to x in order, or x itself when x is a whitespace-only string.
C9_ValueIsConfiguredFormatters ==
    LastWasSetValue =>
        value = IF WhitespaceOnly(last.input) THEN last.input
                ELSE InOrder(config.formatters, last.input)

\* C9 amended: after setValue(x) the value is the field's formatters applied
\* to x in order, or x itself when x is a whitespace-only string; the
\* field's formatters are the configured ones, or toInt alone when none is
\* configured and the field kind is number.
C9_ValueIsFieldFormatters ==
    LastWasSetValue =>
        value = IF WhitespaceOnly(last.input) THEN last.input
                ELSE InOrder(IF config.formatters = <<>>
                                /\ config.type = FIELD_TYPES.NUMBER
                             THEN <<"toInt">> ELSE config.formatters,
                             last.input)

\* setValue ran two configured formatters on a string that is not blank
C9_Witness ==
    /\ last.op = "setValue"
    /\ Len(config.formatters) = 2
    /\ last.input.t = "string"
    /\ ~WhitespaceOnly(last.input)
    /\ value # last.input

\* C10: after a setValue call the Form Coordinator's entry at the field's
\* path is the serializer applied to the field's value, and no other path
\* has been written.
C10_FormDataIsSerializedValue ==
    LastWasSetValue =>
        /\ formData[path] = ApplySerializer(config.serializer, value)
        /\ \A p \in Paths \ {path} : formData[p] = Undefined


\* the type of a validator, 'field' when it has none
TypeOfValidation(i) ==
    IF config.validations[i].type = Unset THEN VALIDATION_TYPES.FIELD
    ELSE config.validations[i].type

\* a step in which validate is called / in which the run r returns
ValidateCalled == validateCounter' = validateCounter + 1

Returns(r) == r \in DOMAIN runs /\ r \notin DOMAIN runs'

\* a run restricted to one validation type calls only validators of that type
OnlyTypeCalled ==
    \A r \in 1..Len(started) :
        RunType(r).kind # Unset =>
            \A k \in 1..Len(Calls(r)) : TypeOfValidation(Calls(r)[k]) \in TypeSet(RunType(r))

\* C11 as stated: a validate call restricted to a type T calls only the
\* validators of type T, and neither the call nor the application of its
\* results changes the errors of another type, in sync and in async mode.
C11_OnlyAddressedTypeChanges ==
    [][/\ OnlyTypeCalled'
       /\ (ValidateCalled /\ last'.types.kind # Unset) =>
              Without(errors', TypeSet(last'.types)) = Without(errors, TypeSet(last'.types))
       /\ \A r \in DOMAIN runs :
              (Returns(r) /\ RunType(r).kind # Unset) =>
                  Without(errors', TypeSet(RunType(r))) = Without(errors, TypeSet(RunType(r)))]_vars

\* C11 amended: a validate call restricted to a type T calls only the
\* validators of type T; in sync mode it changes only the errors of type T;
\* in async mode the call first removes the errors of type 'field' and
\* 'async' (whatever T is) and nothing else, and the application of the
\* results then changes only the errors of type T.
C11_AddressedTypeAndAsyncClear ==
    [][/\ OnlyTypeCalled'
       /\ (ValidateCalled /\ last'.types.kind # Unset) =>
              IF config.isValidationAsync
              THEN errors' = Without(errors, {VALIDATION_TYPES.FIELD, VALIDATION_TYPES.ASYNC})
              ELSE Without(errors', TypeSet(last'.types)) = Without(errors, TypeSet(last'.types))
       /\ \A r \in DOMAIN runs :
              (Returns(r) /\ RunType(r).kind # Unset) =>
                  Without(errors', TypeSet(RunType(r))) = Without(errors, TypeSet(RunType(r)))]_vars

\* a run restricted to 'array-item' has been applied next to an error of
\* another type that was there before the call
C11_Witness ==
    \E r \in Finished :
        /\ RunType(r) = OneType(VALIDATION_TYPES.ARRAY_ITEM)
        /\ r \notin superseded
        /\ Calls(r) # <<>>
        /\ responses[r].errors # <<>>
        /\ ServerError \in {errors[i] : i \in 1..Len(errors)}
        /\ Len(Calls(r)) < NumValidations


\* C12 as stated: validate called without a value validates the value stored
\* by the most recent setValue, also when it is called on the same field
\* handle before the component has rendered again.
C12_ValidatesStoredValue ==
    (last.op = "validate" /\ last.input = Undefined) =>
        started[validateCounter].value = value


\* C13 as stated, its consequence: right after clearErrors() with the default
\* type, getErrorsMessages() with the default type returns null (read here
\* from the errors list the call leaves, as a handle of the next render does).
C13_NullAfterClearErrors ==
    [][(ops' = ops + 1 /\ last'.op = "clearErrors" /\ last'.types = NoType)
          => getErrorsMessages(errors', NoType) = Null]_vars


\* C14: at most one debounce timer is pending at any time; every setValue
\* sets isUpdating, cancels the pending timer and arms a new one; isUpdating
\* is set to false only by the expiry of the timer armed by the most recent
\* setValue.
C14_OneDebounceTimer ==
    [][/\ Cardinality(timers') <= 1
       /\ timerSeq' # timerSeq =>
              isUpdating' /\ timers' = {timerSeq'} /\ debounceTimeout' = timerSeq'
       /\ (isUpdating /\ ~isUpdating') =>
              timers = {timerSeq} /\ timers' = {} /\ timerSeq' = timerSeq]_vars

\* two setValue calls were made and the timer of the second has expired
C14_Witness == timerSeq >= 2 /\ ~isUpdating /\ timers = {} /\ debounceTimeout = timerSeq


\* C15 as stated: isValidating is true in every state in which a validation
\* run is in flight, a superseded run included.
C15_ValidatingWhileAnyRun == runs # <<>> => isValidating

\* C15 amended: isValidating is true in every state in which the most
\* recently started validation run is in flight; a superseded run that is
\* still in flight after the later run has returned does not hold it true.
C15_ValidatingWhileLatestRun == validateCounter \in DOMAIN runs => isValidating

\* the latest run is in flight after an earlier run has returned stale
C15_Witness ==
    /\ validateCounter \in DOMAIN runs
    /\ isValidating
    /\ superseded # {}
    /\ runs[validateCounter].invoked # <<>>


\* C16: when every validator settles and validate is no longer called,
\* isValidating of a field that stays mounted eventually becomes false and
\* stays false.
C16_ValidatingEventuallyFalse == <>[](mounted => ~isValidating)

\* two async runs have returned, one of them stale, and the flag is down
C16_Witness ==
    /\ config.isValidationAsync
    /\ validateCounter >= 2
    /\ runs = <<>>
    /\ superseded # {}
    /\ ~isValidating


\* C17: in async mode every validate call, one that later proves stale
\* included, removes the errors of type 'field' and 'async' from errors
\* before the first validator of the run is called, and leaves the errors
\* of every other type in place.
C17_AsyncStartClearsFieldAndAsync ==
    [][(config.isValidationAsync /\ ValidateCalled) =>
          /\ errors' = Without(errors, {VALIDATION_TYPES.FIELD, VALIDATION_TYPES.ASYNC})
          /\ validateCounter' \in DOMAIN runs'
          /\ started'[validateCounter'].invoked = <<>>]_vars

\* an async run has started over a list holding a field error and errors of
\* other types, and none of its validators has been called yet
C17_Witness ==
    /\ config.isValidationAsync
    /\ last.op = "validate"
    /\ last.errors = <<FieldError, ItemError, ServerError>>
    /\ validateCounter \in DOMAIN runs
    /\ Calls(validateCounter) = <<>>
    /\ errors = <<ItemError, ServerError>>


\* the validators of the in-flight run r that were called and have not settled
Executing(r) ==
    {k \in 1..Len(runs[r].invoked) : runs[r].invoked[k] >= runs[r].idx}

\* the validators of the in-flight run r that were called and have settled
Settled(r) == SelectSeq(runs[r].invoked, LAMBDA i : i < runs[r].idx)

\* C18: within one async run a validator is called only when every validator
\* called before it has settled, so at most one validator of a run is
\* executing at any time, the validators are called in declared order and
\* the run's error list holds the failures in declared order.
C18_OneValidatorAtATime ==
    \A r \in DOMAIN runs :
        LET calls == runs[r].invoked
        IN /\ Cardinality(Executing(r)) <= 1
           /\ Executing(r) # {} <=> runs[r].awaiting
           /\ \A k \in 1..(Len(calls) - 1) : calls[k] < calls[k + 1]
           /\ Calls(r) = calls
           /\ runs[r].validationErrors = FailuresAmong(r, Settled(r))

\* a run holds the error of a settled validator and awaits the next one
C18_Witness ==
    \E r \in DOMAIN runs :
        /\ runs[r].awaiting
        /\ Len(runs[r].invoked) >= 2
        /\ runs[r].validationErrors # <<>>


\* what the run r does when it runs to its end: the validators it calls and
\* the errors it collects, by its own stop flag and validation type
WholeRun(r) == validateSync(config.validations, RunValue(r), RunType(r))

\* C19: an async run that is in flight when a later validate call is issued
\* is not cancelled: it goes on to call every validator its own stop flag
\* and validation type let it call, and it returns its own result.
C19_SupersededRunCompletes ==
    \A r \in 1..MaxValidate :
        (r \in DOMAIN runs /\ validateCounter > r)
            ~> /\ r \in superseded
               /\ Calls(r) = WholeRun(r).invoked
               /\ responses[r].errors = WholeRun(r).validationErrors

\* a run superseded before its first validator was called has made two
\* calls and returned
C19_Witness ==
    \E r \in superseded :
        /\ r \in Finished
        /\ Len(Calls(r)) >= 2
        /\ Calls(r) = WholeRun(r).invoked
        /\ validateCounter > r


\* the steps of the validation side: validate is called, a run returns,
\* clearErrors is called
ValidationStep ==
    \/ ValidateCalled
    \/ \E r \in DOMAIN runs : Returns(r)
    \/ ops' = ops + 1 /\ last'.op = "clearErrors"

\* the steps of the debounce side: setValue or onChange is called, a timer
\* expires
DebounceStep ==
    \/ ops' = ops + 1 /\ last'.op \in {"setValue", "onChange"}
    \/ timers' # timers /\ timerSeq' = timerSeq

\* C20: validate, the handling of its result and clearErrors leave value,
\* isPristine, isUpdating and the pending timer unchanged; setValue, onChange
\* and the expiry of the timer leave errors, isValidating and validateCounter
\* unchanged.
C20_DebounceAndValidationApart ==
    [][/\ ValidationStep =>
              UNCHANGED <<value, isPristine, isUpdating, timers, debounceTimeout, timerSeq>>
       /\ DebounceStep => UNCHANGED <<errors, isValidating, validateCounter>>]_vars

\* a value was set while an async run was in flight, and the run has
\* returned with its errors while the timer is still pending
C20_Witness ==
    /\ config.isValidationAsync
    /\ LastWasSetValue
    /\ isUpdating
    /\ timers # {}
    /\ validateCounter \in Finished
    /\ ~isValidating
    /\ errors # <<>>


\* the component has rendered since the last change of its state
RenderedUpToDate == field = Rendered(value, errors, isPristine)

\* C21 as stated: no request to re-validate is made while the field is
\* pristine, and once a setValue call has been rendered the field has asked
\* the form, since that call, to re-validate fieldsToValidateOnChange.
C21_RequestAfterEverySetValue ==
    /\ isPristine => validateFieldsCalls = <<>>
    /\ (LastWasSetValue /\ RenderedUpToDate) =>
           /\ Len(validateFieldsCalls) > last.requests
           /\ validateFieldsCalls[Len(validateFieldsCalls)] = <<path>>

\* C21 amended: the field asks the form to re-validate
\* fieldsToValidateOnChange (its own path by default) in every render that
\* sees a value different from the previous render's, and in no other step;
\* it never does so while the field is pristine.
C21_RequestOnValueChange ==
    [][/\ field'.value # field.value =>
              /\ validateFieldsCalls' = Append(validateFieldsCalls, <<path>>)
              /\ ~isPristine
       /\ field'.value = field.value => validateFieldsCalls' = validateFieldsCalls
       /\ isPristine' => validateFieldsCalls' = <<>>]_vars

\* two setValue calls were rendered and only one of them changed the value:
\* one request was made
C21_Witness ==
    /\ timerSeq = 2
    /\ RenderedUpToDate
    /\ validateFieldsCalls = <<(<<path>>)>>


\* the state of the field: what useState and useRef hold
FieldState ==
    <<value, errors, isPristine, isValidating, isUpdating, validateCounter, debounceTimeout>>

C23_ConfigImmutable == formatters = config.formatters


Min(a, b) == IF a <= b THEN a ELSE b

Max(a, b) == IF a >= b THEN a ELSE b

\* the request answered: its pagination, the total the response reports and
\* the formatted buckets of the aggregation the method reads
Answered == network.method # "none"

Pagination == network.options.pagination

TotalCount ==
    IF network.method = "getNetworkDns" THEN network.response.dns_count
    ELSE network.response.top_n_flow_count

FormattedBuckets ==
    IF network.method = "getNetworkDns"
    THEN formatDnsEdges(network.response.dns_name_query_count)
    ELSE formatTopNFlowEdges(
             IF network.options.flowDirection = FlowDirection.uniDirectional
             THEN network.response.top_uni_flow ELSE network.response.top_bi_flow,
             network.options.flowTarget)

\* the edges returned are the formatted buckets from index cursorStart on,
\* in bucket order
EdgesFromCursor(edges) ==
    \A i \in 1..Len(edges) :
        /\ Pagination.cursorStart + i <= Len(FormattedBuckets)
        /\ edges[i] = FormattedBuckets[Pagination.cursorStart + i]

\* C24 as stated: for all non-negative totalCount, fakePossibleCount,
\* cursorStart and querySize both methods return a page whose fakeTotalCount
\* is min(fakePossibleCount, totalCount), whose showMorePagesIndicator is
\* true exactly when totalCount > fakePossibleCount, and whose edges are the
\* formatted buckets from cursorStart on, at most querySize - cursorStart of
\* them.
C24_PageOfBuckets ==
    Answered =>
        /\ network.reply.kind = "result"
        /\ network.reply.pageInfo.fakeTotalCount = Min(Pagination.fakePossibleCount, TotalCount)
        /\ network.reply.pageInfo.fakeTotalCount <= TotalCount
        /\ network.reply.pageInfo.showMorePagesIndicator
               <=> TotalCount > Pagination.fakePossibleCount
        /\ EdgesFromCursor(network.reply.edges)
        /\ Len(network.reply.edges) <= Pagination.querySize - Pagination.cursorStart

\* C24 amended: getNetworkTopNFlow throws when querySize is
\* DEFAULT_MAX_TABLE_QUERY_SIZE or more; otherwise both methods return a page
\* whose fakeTotalCount is min(fakePossibleCount, totalCount), whose
\* showMorePagesIndicator is true exactly when totalCount > fakePossibleCount,
\* and whose edges are the formatted buckets from cursorStart on, as many as
\* there are up to max(querySize - cursorStart, 0) of them.
C24_PageOrThrow ==
    Answered =>
        IF /\ network.method = "getNetworkTopNFlow"
           /\ Pagination.querySize >= DEFAULT_MAX_TABLE_QUERY_SIZE
        THEN network.reply.kind = "throws"
        ELSE /\ network.reply.kind = "result"
             /\ network.reply.pageInfo.fakeTotalCount
                    = Min(Pagination.fakePossibleCount, TotalCount)
             /\ network.reply.pageInfo.fakeTotalCount <= TotalCount
             /\ network.reply.pageInfo.showMorePagesIndicator
                    <=> TotalCount > Pagination.fakePossibleCount
             /\ network.reply.totalCount = TotalCount
             /\ EdgesFromCursor(network.reply.edges)
             /\ Len(network.reply.edges)
                    = Min(Max(Pagination.querySize - Pagination.cursorStart, 0),
                          Max(Len(FormattedBuckets) - Pagination.cursorStart, 0))

\* a page that starts after the first bucket, is cut by querySize before the
\* last one, and reports more pages
C24_Witness ==
    /\ network.method = "getNetworkTopNFlow"
    /\ network.reply.kind = "result"
    /\ Pagination.cursorStart >= 1
    /\ Len(network.reply.edges) >= 1
    /\ Pagination.cursorStart + Len(network.reply.edges) < Len(FormattedBuckets)
    /\ network.reply.pageInfo.showMorePagesIndicator
    /\ network.reply.pageInfo.fakeTotalCount = Pagination.fakePossibleCount

====
